---- MODULE Spec2Model ----
(***************************************************************************)
(* A model of PoseGenerator (tools/src/poseGenerator.cpp): the rule table  *)
(* built by the constructor, the bounded random sampler, the pose          *)
(* synthesizer, the per-frame planner and the flatten/shuffle stage.       *)
(*                                                                         *)
(* Numbers.  A double is an integer (a fixed-point grid); a float is a     *)
(* double that is a multiple of FloatUlp, and the double -> float          *)
(* conversion of getRandom / genGaussianRV / genUniformRV rounds to the    *)
(* nearest float, ties to even.                                            *)
(*                                                                         *)
(* Randomness.  std::mt19937_64 is modelled by an engine whose state is an *)
(* integer of StreamPeriod digits in base RawMax + 1: a draw outputs the   *)
(* lowest digit and rotates the digits.  The seeds 0 .. Modulus - 1 give   *)
(* every periodic stream of raw values, so the engine is deterministic in  *)
(* its state and the streams cover every window of StreamPeriod draws.     *)
(* Each distribution sample and each swap of std::shuffle consumes one     *)
(* draw.                                                                   *)
(***************************************************************************)
EXTENDS Integers, Sequences, FiniteSets, TLC

\* ------------------------------------------------------------------- state
VARIABLES
    phase,       \* "new", "ready", "shuffling", "returned", "ctor_failed", or "dead" (hung or crashed)
    configRules, \* the rules the constructor was given
    obj,         \* the object: m_perturbRules, m_sensorNames, m_generator
    call,        \* the last call: its operation, arguments and the engine state at entry
    status,      \* its outcome: "none", "ok", an error, "hung" or "crash"
    ret,         \* the value it returned
    locals,      \* what it left behind (Locals)
    clock,       \* std::chrono::system_clock, in constructions so far
    twin         \* a second PoseGenerator, built from the same arguments

vars == <<phase, configRules, obj, call, status, ret, locals, clock, twin>>

\* ------------------------------------------------------------------ bounds
MaxFrames    == 2   \* frames of a label trace / entries of vecUseCounts
MaxUse       == 2   \* largest use count of a frame
MaxSensors   == 2   \* length of the sensor name list
MaxRules     == 2   \* length of configRules
StreamPeriod == 2   \* period of the engine's raw stream
RawMax       == 2   \* raw draws are 0 .. RawMax
MaxCounted   == 2   \* shuffles of one call counted one by one

\* ------------------------------------------------------- program constants
\* Length of the literal "no perturbation rule found for frame ".
MsgLen == 37
\* Spacing of the floats on the grid of doubles.
FloatUlp == 4

\* ---------------------------------------------------------------- helpers
Range(s) == {s[i] : i \in 1..Len(s)}

RECURSIVE SeqsUpTo(_, _)
\* All sequences over S of length 0 .. n.
SeqsUpTo(S, n) ==
    IF n = 0 THEN {<<>>}
    ELSE LET shorter == SeqsUpTo(S, n - 1)
         IN  shorter \cup {Append(s, x) : s \in {t \in shorter : Len(t) = n - 1}, x \in S}

RECURSIVE Pow(_, _)
Pow(b, e) == IF e = 0 THEN 1 ELSE b * Pow(b, e - 1)

Abs(x) == IF x < 0 THEN -x ELSE x

\* ----------------------------------------------------------------- engine
RawVals == 0..RawMax
Base    == RawMax + 1
Modulus == Pow(Base, StreamPeriod)
Seeds   == 0..(Modulus - 1)
TopDigit == Pow(Base, StreamPeriod - 1)

\* A generator seeded from the clock, not from the seed it is given.
SeedEngine_FromClock(seed) == clock % Modulus

\* m_generator(seed): the engine state after seeding.
SeedEngine(seed) == seed % Modulus

\* m_generator(): one raw draw; the new engine state.
EngineDraw(g) ==
    [out |-> g % Base,
     g   |-> (g \div Base) + (g % Base) * TopDigit]

\* ---------------------------------------------------------------- numbers
\* static_cast<float>(double): nearest multiple of FloatUlp, ties to even.
ToFloat(d) ==
    LET q == d \div FloatUlp
        r == d % FloatUlp
    IN  IF 2 * r < FloatUlp THEN q * FloatUlp
        ELSE IF 2 * r > FloatUlp THEN (q + 1) * FloatUlp
        ELSE IF q % 2 = 0 THEN q * FloatUlp
        ELSE (q + 1) * FloatUlp

\* std::normal_distribution<double>(0, stdDev) applied to one raw draw.
NormalVariate(raw, stdDev) == stdDev * (raw - (RawMax \div 2))

\* std::uniform_real_distribution<double>(-max, max) applied to one raw
\* draw: a value of [-max, max).
UniformVariate(raw, max) == (2 * max * raw) \div Base - max

\* ------------------------------------------------------------ data model
RandParams(distribution, max, stdDev) ==
    [distribution |-> distribution, max |-> max, stdDev |-> stdDev]

\* flip enabled, gaussian fields (after the test's perturbParams1).
perturbParams1 ==
    [shift        |-> RandParams("gaussian", 3, 3),
     rotation     |-> RandParams("gaussian", 4, 4),
     forward      |-> RandParams("gaussian", 8, 5),
     sensor_yaw   |-> RandParams("gaussian", 5, 3),
     sensor_pitch |-> RandParams("gaussian", 2, 5),
     sensor_roll  |-> RandParams("gaussian", 0, 0),
     flip         |-> TRUE]

\* flip disabled, uniform and gaussian fields (after the test's perturbParams2).
perturbParams2 ==
    [shift        |-> RandParams("gaussian", 5, 3),
     rotation     |-> RandParams("uniform", 8, 1),
     forward      |-> RandParams("uniform", 3, 5),
     sensor_yaw   |-> RandParams("uniform", 5, 3),
     sensor_pitch |-> RandParams("gaussian", 6, 3),
     sensor_roll  |-> RandParams("normal", 2, 1),
     flip         |-> FALSE]

\* a recipe whose forward field names a distribution getRandom does not know.
perturbParams3 ==
    [perturbParams2 EXCEPT !.forward = RandParams("poisson", 3, 1)]

ParamSets == {perturbParams1, perturbParams2, perturbParams3}

EmptyMap == [k \in {} |-> 0]

\* An insertion that overwrites the value of a key already there.
MapInsert_Overwrite(m, key, value) ==
    [k \in (DOMAIN m) \cup {key} |-> IF k = key THEN value ELSE m[k]]

\* std::map::insert: inserts only when the key is absent.
MapInsert(m, key, value) ==
    [k \in (DOMAIN m) \cup {key} |-> IF k \in DOMAIN m THEN m[k] ELSE value]

\* Augmenter::Pose aPose = {};
ZeroPose ==
    [shift |-> 0, rotation |-> 0, forward |-> 0,
     sensor_yaw |-> EmptyMap, sensor_pitch |-> EmptyMap, sensor_roll |-> EmptyMap,
     flip |-> FALSE, srcFrame |-> 0]

\* ---------------------------------------------------------------- sampler
\* Bind(v, F) is F(v) with v evaluated once: a local variable.
Bind(v, F(_)) == CHOOSE r \in {F(x) : x \in {v}} : TRUE

\* An outcome of a sampler call: st is "ok", "UnknownDistribution" (thrown)
\* or "hung" (the rejection loop never ends on this stream).
Sampled(st, val, g) == [st |-> st, val |-> val, g |-> g]

RECURSIVE GaussLoop(_, _, _)
\* The draw and the while loop of genGaussianRV.  After StreamPeriod
\* rejected draws in a row the stream repeats and every later draw is
\* rejected too.
GaussLoop(params, g, fuel) ==
    Bind(EngineDraw(g), LAMBDA d :
        LET numGauss == NormalVariate(d.out, params.stdDev)
        IN  IF ~((numGauss < -params.max) \/ (numGauss > params.max))
            THEN Sampled("ok", ToFloat(numGauss), d.g)
            ELSE IF fuel = 0 THEN Sampled("hung", 0, d.g)
            ELSE GaussLoop(params, d.g, fuel - 1))

genGaussianRV(params, g) == GaussLoop(params, g, StreamPeriod - 1)

genUniformRV(params, g) ==
    Bind(EngineDraw(g), LAMBDA d :
        Sampled("ok", ToFloat(UniformVariate(d.out, params.max)), d.g))

getRandom(rParams, g) ==
    IF (rParams.distribution = "gaussian") \/ (rParams.distribution = "normal")
    THEN genGaussianRV(rParams, g)
    ELSE IF rParams.distribution = "uniform"
    THEN genUniformRV(rParams, g)
    ELSE Sampled("UnknownDistribution", 0, g)

\* ------------------------------------------------------- pose synthesizer
\* An outcome of generateOnePose: the pose, the engine state, and the values
\* getRandom returned, in call order.
Synth(st, pose, g, samples) == [st |-> st, pose |-> pose, g |-> g, samples |-> samples]

\* aPose.<field> = value for shift, rotation and forward;
\* aPose.<field>.insert(std::pair(sensorName, value)) for the sensor maps.
Store(pose, field, sensorName, value) ==
    IF field \in {"shift", "rotation", "forward"}
    THEN [pose EXCEPT ![field] = value]
    ELSE [pose EXCEPT ![field] = MapInsert(@, sensorName, value)]

\* One getRandom call of generateOnePose and the store of its value; a throw
\* or a hang of an earlier call has ended the body.
DrawField(acc, params, field, sensorName) ==
    Bind(acc, LAMBDA a :
        IF a.st # "ok" THEN a
        ELSE Bind(getRandom(params[field], a.g), LAMBDA s :
                 IF s.st # "ok" THEN Synth(s.st, a.pose, s.g, a.samples)
                 ELSE Synth("ok", Store(a.pose, field, sensorName, s.val), s.g,
                            Append(a.samples, s.val))))

RECURSIVE SensorLoop(_, _, _, _)
\* for (auto sensorName : m_sensorNames) of generateOnePose, from the k-th name.
SensorLoop(acc, params, sensorNames, k) ==
    Bind(acc, LAMBDA a :
        IF k > Len(sensorNames) \/ a.st # "ok" THEN a
        ELSE LET a1 == DrawField(a, params, "sensor_yaw", sensorNames[k])
                 a2 == DrawField(a1, params, "sensor_pitch", sensorNames[k])
                 a3 == DrawField(a2, params, "sensor_roll", sensorNames[k])
             IN  SensorLoop(a3, params, sensorNames, k + 1))

generateOnePose(params, sensorNames, g) ==
    LET a0 == Synth("ok", ZeroPose, g, <<>>)
        a1 == DrawField(a0, params, "shift", "")
        a2 == DrawField(a1, params, "rotation", "")
        a3 == DrawField(a2, params, "forward", "")
    IN  Bind(SensorLoop(a3, params, sensorNames, 1), LAMBDA a4 :
            IF a4.st # "ok" THEN a4
            ELSE Synth("ok", [a4.pose EXCEPT !.flip = FALSE], a4.g, a4.samples))

flipPose(in) ==
    [in EXCEPT !.flip = TRUE, !.shift = -1 * @, !.rotation = -1 * @]

\* ------------------------------------------------ labels (projMetaData)
\* A label string "key1=val1 key2=val2" is the sequence of its <<key, val>>
\* tokens; keys are distinct within a string.
StringFields  == {"road_type", "user_label"}
NumericFields == {"speed"}
ValidLabels ==
    [f \in StringFields |->
        IF f = "road_type" THEN {"highway", "local"} ELSE {"stable"}]

stringMapFromSplitString(str) ==
    [k \in {str[i][1] : i \in 1..Len(str)} |->
        (CHOOSE t \in Range(str) : t[1] = k)[2]]

isFieldNumeric(field) == field \in NumericFields

isLabelValid(field, value) ==
    field \in StringFields /\ value \in ValidLabels[field]

\* A label file: whether projMetaTrace(labelsFileName) loads it, and the
\* labels of its frames.
FrameLabels(roadType) == [road_type |-> roadType, user_label |-> "stable"]

TraceFile(loads, frames) == [loads |-> loads, frames |-> frames]

getNumDatapoints(trace) == Len(trace.frames)

\* projMetaTrace::doLabelsMatch(index, conditions); index is 0-based.
doLabelsMatch(trace, index, conditions) ==
    \A k \in DOMAIN conditions :
        /\ k \in DOMAIN trace.frames[index + 1]
        /\ trace.frames[index + 1][k] = conditions[k]

\* ------------------------------------------------------------ rule table
Rule(first, second) == [first |-> first, second |-> second]

\* The first offending condition of a label map makes the constructor throw.
RuleError(labelConditions) ==
    IF \E k \in DOMAIN labelConditions : isFieldNumeric(k)
    THEN "InvalidRule"
    ELSE IF \E k \in DOMAIN labelConditions : ~isLabelValid(k, labelConditions[k])
    THEN "InvalidRule"
    ELSE "ok"

RECURSIVE RuleLoop(_, _, _)
\* for (auto rule : configRules) of the constructor (rules is configRules), from the k-th rule:
\* the rules pushed so far, or the throw.
RuleLoop(rules, k, pushed) ==
    IF k > Len(rules) THEN [st |-> "ok", rules |-> pushed]
    ELSE LET rule            == rules[k]
             labelConditions == stringMapFromSplitString(rule.first)
         IN  IF RuleError(labelConditions) # "ok"
             THEN [st |-> RuleError(labelConditions), rules |-> pushed]
             ELSE RuleLoop(rules, k + 1,
                           Append(pushed, Rule(labelConditions, rule.second)))

\* PoseGenerator::PoseGenerator: the fields of the new object, or the throw.
PoseGenerator(rules, sensorNames, seed) ==
    LET built == RuleLoop(rules, 1, <<>>)
    IN  [st             |-> built.st,
         m_perturbRules |-> built.rules,
         m_sensorNames  |-> sensorNames,
         m_generator    |-> SeedEngine(seed)]

\* ----------------------------------------------------- frame pose planner
RECURSIVE FindIf(_, _, _, _)
\* std::find_if over m_perturbRules from the k-th rule: the position of the
\* first rule whose conditions match the frame (Len + 1 is end()), and the
\* number of doLabelsMatch calls made.
FindIf(rules, trace, index, k) ==
    IF k > Len(rules) THEN [pos |-> k, lookups |-> k - 1]
    ELSE IF doLabelsMatch(trace, index, rules[k].first)
    THEN [pos |-> k, lookups |-> k]
    ELSE FindIf(rules, trace, index, k + 1)

RECURSIVE FindLast(_, _, _, _)
\* A scan from the last rule down: the position of the last matching rule.
FindLast(rules, trace, index, k) ==
    IF k < 1 THEN [pos |-> Len(rules) + 1, lookups |-> Len(rules)]
    ELSE IF doLabelsMatch(trace, index, rules[k].first)
    THEN [pos |-> k, lookups |-> Len(rules) - k + 1]
    ELSE FindLast(rules, trace, index, k - 1)

first_rule_Last(rules, trace, index) == FindLast(rules, trace, index, Len(rules))

first_rule(rules, trace, index) == FindIf(rules, trace, index, 1)

\* An outcome of generatePoses4oneFrame: st, the poses, the engine state,
\* the position find_if returned (0: find_if was not called), its number of
\* doLabelsMatch calls, and the rule position handed to each generateOnePose.
Planned(st, poses, g, rulePos, lookups, used) ==
    [st |-> st, poses |-> poses, g |-> g, rulePos |-> rulePos,
     lookups |-> lookups, used |-> used]

\* A loop body that pushes only the poses it does not flip.
PushPose_DropFlipped(vecPoses, params, onePose, i) ==
    IF params.flip /\ (i % 2 # 0) THEN vecPoses ELSE Append(vecPoses, onePose)

\* A loop body that flips the poses of even index.
PushPose_FlipEven(vecPoses, params, onePose, i) ==
    IF params.flip /\ (i % 2 = 0)
    THEN Append(vecPoses, flipPose(onePose))
    ELSE Append(vecPoses, onePose)

\* A loop body that flips every pose of a rule with flip enabled.
PushPose_FlipAll(vecPoses, params, onePose, i) ==
    IF params.flip
    THEN Append(vecPoses, flipPose(onePose))
    ELSE Append(vecPoses, onePose)

\* Push flipped pose every other pose: the if / else of the loop body.
PushPose(vecPoses, params, onePose, i) ==
    IF params.flip /\ (i % 2 # 0)
    THEN Append(vecPoses, flipPose(onePose))
    ELSE Append(vecPoses, onePose)

RECURSIVE PoseLoop(_, _, _, _, _, _)
\* for (i = 0; i < useCount; ++i) of generatePoses4oneFrame, from i.
PoseLoop(acc, this, pos, useCount, index, i) ==
    Bind(acc, LAMBDA a :
        IF i >= useCount THEN a
        ELSE LET params == this.m_perturbRules[pos].second
             IN  Bind(generateOnePose(params, this.m_sensorNames, a.g), LAMBDA one :
                     LET onePose == [one.pose EXCEPT !.srcFrame = index]
                         used    == Append(a.used, pos)
                     IN  IF one.st # "ok"
                         THEN Planned(one.st, a.poses, one.g, pos, a.lookups, used)
                         ELSE PoseLoop(Planned("ok", PushPose(a.poses, params, onePose, i),
                                               one.g, pos, a.lookups, used),
                                       this, pos, useCount, index, i + 1)))

\* The throw of line 140: "literal" + index is pointer arithmetic, defined
\* while index <= MsgLen; beyond it the behaviour is undefined and `ub` is the
\* outcome the build produces.
NoRuleThrow(index, ub) == IF index <= MsgLen THEN "NoMatchingRule" ELSE ub

UBOutcomes == {"NoMatchingRule", "crash"}

\* The outcomes to consider for a call on a trace: one when no frame index
\* of the trace can reach the undefined behaviour.
UBChoices(trace) ==
    IF getNumDatapoints(trace) > MsgLen + 1 THEN UBOutcomes ELSE {"NoMatchingRule"}

generatePoses4oneFrame(this, useCount, index, trace, g, ub) ==
    IF useCount = 0 THEN Planned("ok", <<>>, g, 0, 0, <<>>)
    ELSE Bind(first_rule(this.m_perturbRules, trace, index), LAMBDA found :
             LET start == Planned("ok", <<>>, g, found.pos, found.lookups, <<>>)
                 loop  == IF found.pos <= Len(this.m_perturbRules)
                          THEN PoseLoop(start, this, found.pos, useCount, index, 0)
                          ELSE start
             IN  Bind(loop, LAMBDA vecPoses :
                     IF vecPoses.st # "ok" THEN vecPoses
                     ELSE IF Len(vecPoses.poses) = 0
                     THEN [vecPoses EXCEPT !.st = NoRuleThrow(index, ub)]
                     ELSE vecPoses))

\* What a call leaves behind besides its outcome: per frame planned, what
\* generatePoses4oneFrame did (planned); the local unshuffledPoses of
\* generateShuffledPoses; the number of std::shuffle calls; the values
\* getRandom returned to a direct generateOnePose call.
Locals(planned, unshuffledPoses, shuffles, samples) ==
    [planned |-> planned, unshuffledPoses |-> unshuffledPoses,
     shuffles |-> shuffles, samples |-> samples]

NoLocals == Locals(<<>>, <<>>, 0, <<>>)

\* The outcome of a call: st is "ok" (returned), the name of the error
\* thrown, "hung" or "crash"; ret is the value returned (<<>> when none);
\* g is the engine state the call leaves.
Outcome(st, value, g, left) == [st |-> st, ret |-> value, g |-> g, locals |-> left]

FrameNote(p) == [rulePos |-> p.rulePos, lookups |-> p.lookups, used |-> p.used]

RECURSIVE FrameLoop(_, _, _, _, _, _)
\* for (i = 0; i < numFrames; ++i) of generatePoses4vecFrames, from i.
FrameLoop(acc, this, vecUseCounts, trace, ub, i) ==
    Bind(acc, LAMBDA a :
        IF i >= Len(vecUseCounts) THEN a
        ELSE Bind(generatePoses4oneFrame(this, vecUseCounts[i + 1], i, trace, a.g, ub),
                  LAMBDA Poses :
                 LET notes == Append(a.locals.planned, FrameNote(Poses))
                 IN  IF Poses.st # "ok"
                     THEN Outcome(Poses.st, <<>>, Poses.g, Locals(notes, <<>>, 0, <<>>))
                     ELSE FrameLoop(Outcome("ok", Append(a.ret, Poses.poses), Poses.g,
                                            Locals(notes, <<>>, 0, <<>>)),
                                    this, vecUseCounts, trace, ub, i + 1)))

\* A check that only refuses a trace shorter than the use counts.
FrameCountDiffers_Less(trace, numFrames) == getNumDatapoints(trace) < numFrames

\* if (trace.getNumDatapoints() != numFrames)
FrameCountDiffers(trace, numFrames) == getNumDatapoints(trace) # numFrames

generatePoses4vecFrames(this, vecUseCounts, labelsFileName, ub) ==
    LET numFrames == Len(vecUseCounts)
        trace     == labelsFileName
    IN  IF ~trace.loads THEN Outcome("TraceLoadError", <<>>, this.m_generator, NoLocals)
        ELSE IF FrameCountDiffers(trace, numFrames)
        THEN Outcome("FrameCountMismatch", <<>>, this.m_generator, NoLocals)
        ELSE Bind(FrameLoop(Outcome("ok", <<>>, this.m_generator, NoLocals),
                            this, vecUseCounts, trace, ub, 0),
                  LAMBDA vecVecPoses :
                 IF vecVecPoses.st # "ok" THEN vecVecPoses
                 ELSE IF Len(vecVecPoses.ret) # numFrames
                 THEN [vecVecPoses EXCEPT !.st = "InternalInconsistency", !.ret = <<>>]
                 ELSE vecVecPoses)

\* ------------------------------------------------- flatten / shuffle stage
RECURSIVE FlattenFrom(_, _)
\* The two nested for loops of generateShuffledPoses, from the k-th vector.
FlattenFrom(vecs, k) ==
    IF k > Len(vecs) THEN <<>> ELSE vecs[k] \o FlattenFrom(vecs, k + 1)

\* A swap that copies one way only.
Swap_Copy(a, i, j) == [a EXCEPT ![i] = a[j]]

\* std::iter_swap
Swap(a, i, j) == [a EXCEPT ![i] = a[j], ![j] = a[i]]

RECURSIVE ShuffleLoop(_, _)
\* std::shuffle(first, last, m_generator): for each i (1-based here) from
\* the second element on, swap element i with an element of 1..i picked by
\* one draw.  `at` is the arrangement and the engine state before step i.
ShuffleLoop(at, i) ==
    Bind(at, LAMBDA cur :
        IF i > Len(cur.seq) THEN cur
        ELSE Bind(EngineDraw(cur.g), LAMBDA d :
                 ShuffleLoop([seq |-> Swap(cur.seq, i, (d.out * i) \div Base + 1),
                              g |-> d.g],
                             i + 1)))

shuffle(a, g) == ShuffleLoop([seq |-> a, g |-> g], 2)

RECURSIVE ReshuffleLoop(_, _, _)
\* while (flattenedPoses.at(0).flip) shuffle again.  `seen` holds the pairs
\* (arrangement, engine state) the loop has been at: when one comes back the
\* loop repeats for ever.
ReshuffleLoop(at, shuffles, seen) ==
    Bind(at, LAMBDA cur :
        IF ~cur.seq[1].flip
        THEN [st |-> "ok", seq |-> cur.seq, g |-> cur.g, shuffles |-> shuffles]
        ELSE IF cur \in seen
        THEN [st |-> "hung", seq |-> cur.seq, g |-> cur.g, shuffles |-> shuffles]
        ELSE ReshuffleLoop(shuffle(cur.seq, cur.g), shuffles + 1, seen \cup {cur}))

\* No loop: the first shuffle stands.
reshuffleWhileFlipped_Never(at) ==
    [st |-> "ok", seq |-> at.seq, g |-> at.g, shuffles |-> 1]

\* The while loop after the first std::shuffle, entered with its result.
reshuffleWhileFlipped(at) == ReshuffleLoop(at, 1, {})

generateShuffledPoses(this, vecUseCounts, labelsFileName, ub) ==
    Bind(generatePoses4vecFrames(this, vecUseCounts, labelsFileName, ub),
         LAMBDA unshuffledPoses :
        IF unshuffledPoses.st # "ok" THEN unshuffledPoses
        ELSE Bind(FlattenFrom(unshuffledPoses.ret, 1), LAMBDA flattenedPoses :
                 LET planned == unshuffledPoses.locals.planned
                 IN  IF Len(flattenedPoses) = 0
                     THEN Outcome("ok", <<>>, unshuffledPoses.g,
                                  Locals(planned, unshuffledPoses.ret, 0, <<>>))
                     ELSE Bind(reshuffleWhileFlipped(shuffle(flattenedPoses,
                                                             unshuffledPoses.g)),
                               LAMBDA loop :
                              Outcome(loop.st, IF loop.st = "ok" THEN loop.seq ELSE <<>>,
                                      loop.g,
                                      Locals(planned, unshuffledPoses.ret, loop.shuffles,
                                             <<>>)))))

\* ------------------------------------------------------------------ inputs
SensorNames == <<"center", "pilot", "pilotPinhole">>

\* Sensor name lists up to renaming: a list uses the first names of
\* SensorNames, each first used after the ones before it; a name may repeat.
SensorLists ==
    {l \in SeqsUpTo({SensorNames[i] : i \in 1..MaxSensors}, MaxSensors) :
        \A k \in 1..Len(l) : \A i \in 2..MaxSensors :
            l[k] = SensorNames[i] => \E j \in 1..(k - 1) : l[j] = SensorNames[i - 1]}

RulePool ==
    {Rule(<<<<"road_type", "highway">>, <<"user_label", "stable">>>>, perturbParams1),
     Rule(<<<<"user_label", "stable">>>>, perturbParams2),
     Rule(<<<<"road_type", "local">>>>, perturbParams3),
     Rule(<<<<"speed", "fast">>>>, perturbParams1),
     Rule(<<<<"road_type", "mars">>>>, perturbParams1)}

ConfigRuleLists == SeqsUpTo(RulePool, MaxRules)

RoadTypes == {"highway", "local"}

\* The label files: one that does not load, every trace of up to MaxFrames
\* frames, and a long trace of local roads.
LongTrace == TraceFile(TRUE, [i \in 1..(MsgLen + 2) |-> FrameLabels("local")])

TraceFiles ==
    {TraceFile(FALSE, <<>>), LongTrace}
    \cup {TraceFile(TRUE, f) : f \in SeqsUpTo({FrameLabels(r) : r \in RoadTypes}, MaxFrames)}

UseCountVecs == SeqsUpTo(0..MaxUse, MaxFrames)

\* Frame indices of a direct generatePoses4oneFrame call: the first
\* MaxFrames frames of the trace and its last two.
FrameIndexes(trace) ==
    {i \in 0..(getNumDatapoints(trace) - 1) :
        i < MaxFrames \/ i >= getNumDatapoints(trace) - 2}

\* ----------------------------------------------------------------- actions
NoObj  == [m_perturbRules |-> <<>>, m_sensorNames |-> <<>>, m_generator |-> 0]
NoFile == TraceFile(FALSE, <<>>)

Call(op, vecUseCounts, labelsFileName, useCount, index, params, entry) ==
    [op |-> op, vecUseCounts |-> vecUseCounts, labelsFileName |-> labelsFileName,
     useCount |-> useCount, index |-> index, params |-> params, entry |-> entry]

NoCall == Call("none", <<>>, NoFile, 0, 0, perturbParams1, 0)

\* The second object: phase is "new", "args" (the first object has been
\* built and the second is about to be, from the same arguments), "ready",
\* "ctor_failed" or "dead"; status and ret are those of its last call.
Twin(ph, sensorNames, seed, o, st, r) ==
    [phase |-> ph, sensorNames |-> sensorNames, seed |-> seed, obj |-> o,
     status |-> st, ret |-> r]

NoTwin == Twin("new", <<>>, 0, NoObj, "none", <<>>)

Init ==
    /\ phase = "new"
    /\ configRules = <<>>
    /\ obj = NoObj
    /\ call = NoCall
    /\ status = "none"
    /\ ret = <<>>
    /\ locals = NoLocals
    /\ clock = 0
    /\ twin = NoTwin

Fields(made) ==
    IF made.st = "ok"
    THEN [m_perturbRules |-> made.m_perturbRules, m_sensorNames |-> made.m_sensorNames,
          m_generator |-> made.m_generator]
    ELSE NoObj

\* new PoseGenerator(rules, sensorNames, seed)
ConstructWith(rules, sensorNames, seed) ==
    /\ phase = "new"
    /\ \E made \in {PoseGenerator(rules, sensorNames, seed)} :
        /\ configRules' = rules
        /\ phase' = IF made.st = "ok" THEN "ready" ELSE "ctor_failed"
        /\ obj' = Fields(made)
        /\ status' = IF made.st = "ok" THEN "none" ELSE made.st
    /\ clock' = clock + 1
    /\ UNCHANGED <<call, ret, locals>>

Construct ==
    \E rules \in ConfigRuleLists, sensorNames \in SensorLists, seed \in Seeds :
        ConstructWith(rules, sensorNames, seed) /\ UNCHANGED twin

\* The state a call leaves: a hang or a crash ends the program.
Finish(c, out) ==
    /\ call' = c
    /\ status' = out.st
    /\ ret' = out.ret
    /\ locals' = out.locals
    /\ obj' = [obj EXCEPT !.m_generator = out.g]
    /\ phase' = IF out.st \in {"hung", "crash"} THEN "dead" ELSE "returned"
    /\ UNCHANGED <<configRules, clock>>

VecCall(vecUseCounts, labelsFileName, ub) ==
    /\ phase = "ready"
    /\ \E out \in {generatePoses4vecFrames(obj, vecUseCounts, labelsFileName, ub)} :
        Finish(Call("generatePoses4vecFrames", vecUseCounts, labelsFileName, 0, 0,
                    perturbParams1, obj.m_generator), out)

ShuffledCall(vecUseCounts, labelsFileName, ub) ==
    /\ phase = "ready"
    /\ \E out \in {generateShuffledPoses(obj, vecUseCounts, labelsFileName, ub)} :
        Finish(Call("generateShuffledPoses", vecUseCounts, labelsFileName, 0, 0,
                    perturbParams1, obj.m_generator), out)

GeneratePoses4vecFrames ==
    \E vecUseCounts \in UseCountVecs, labelsFileName \in TraceFiles :
        \E ub \in UBChoices(labelsFileName) :
            VecCall(vecUseCounts, labelsFileName, ub) /\ UNCHANGED twin

GenerateShuffledPoses ==
    \E vecUseCounts \in UseCountVecs, labelsFileName \in TraceFiles :
        \E ub \in UBChoices(labelsFileName) :
            ShuffledCall(vecUseCounts, labelsFileName, ub) /\ UNCHANGED twin

\* A direct call of the public generatePoses4oneFrame on a loaded trace.
GeneratePoses4oneFrame ==
    /\ phase = "ready"
    /\ \E trace \in {t \in TraceFiles : t.loads}, useCount \in 0..MaxUse :
        \E index \in FrameIndexes(trace), ub \in UBChoices(trace) :
            \E Poses \in {generatePoses4oneFrame(obj, useCount, index, trace,
                                                   obj.m_generator, ub)} :
                Finish(Call("generatePoses4oneFrame", <<>>, trace, useCount, index,
                            perturbParams1, obj.m_generator),
                       Outcome(Poses.st, IF Poses.st = "ok" THEN Poses.poses ELSE <<>>,
                               Poses.g, Locals(<<FrameNote(Poses)>>, <<>>, 0, <<>>)))
    /\ UNCHANGED twin

\* A direct call of the public generateOnePose.
GenerateOnePose ==
    /\ phase = "ready"
    /\ \E params \in ParamSets :
        \E one \in {generateOnePose(params, obj.m_sensorNames, obj.m_generator)} :
            Finish(Call("generateOnePose", <<>>, NoFile, 0, 0, params, obj.m_generator),
                   Outcome(one.st, IF one.st = "ok" THEN <<one.pose>> ELSE <<>>, one.g,
                           Locals(<<>>, <<>>, 0, one.samples)))
    /\ UNCHANGED twin

\* The caller has looked at the value returned, or caught the exception, and
\* goes on to its next call.
Continue ==
    /\ phase = "returned"
    /\ phase' = "ready"
    /\ call' = NoCall
    /\ status' = "none"
    /\ ret' = <<>>
    /\ locals' = NoLocals
    /\ UNCHANGED <<configRules, obj, clock>>

CallerContinues == Continue /\ UNCHANGED twin

Next ==
    \/ Construct
    \/ CallerContinues
    \/ GeneratePoses4vecFrames
    \/ GenerateShuffledPoses
    \/ GeneratePoses4oneFrame
    \/ GenerateOnePose

Spec == Init /\ [][Next]_vars

\* --------------------------------------------------- two generators
\* Two PoseGenerator objects are built one after the other from the same
\* rules, sensor names and seed, and then given the same calls.
PairConstruct ==
    \E rules \in ConfigRuleLists, sensorNames \in SensorLists, seed \in Seeds :
        /\ ConstructWith(rules, sensorNames, seed)
        /\ twin' = Twin("args", sensorNames, seed, NoObj, "none", <<>>)

TwinConstruct ==
    /\ twin.phase = "args"
    /\ \E made \in {PoseGenerator(configRules, twin.sensorNames, twin.seed)} :
        twin' = Twin(IF made.st = "ok" THEN "ready" ELSE "ctor_failed", <<>>, 0,
                     Fields(made), IF made.st = "ok" THEN "none" ELSE made.st, <<>>)
    /\ clock' = clock + 1
    /\ UNCHANGED <<phase, configRules, obj, call, status, ret, locals>>

\* The same call on the second object.
TwinFinish(out) ==
    twin' = [twin EXCEPT !.status = out.st, !.ret = out.ret,
                         !.obj = [twin.obj EXCEPT !.m_generator = out.g],
                         !.phase = IF out.st \in {"hung", "crash"} THEN "dead" ELSE "ready"]

PairPoses4vecFrames ==
    /\ twin.phase = "ready"
    /\ \E vecUseCounts \in UseCountVecs, labelsFileName \in TraceFiles :
        \E ub \in UBChoices(labelsFileName) :
            /\ VecCall(vecUseCounts, labelsFileName, ub)
            /\ \E out \in {generatePoses4vecFrames(twin.obj, vecUseCounts,
                                                     labelsFileName, ub)} :
                TwinFinish(out)

PairShuffledPoses ==
    /\ twin.phase = "ready"
    /\ \E vecUseCounts \in UseCountVecs, labelsFileName \in TraceFiles :
        \E ub \in UBChoices(labelsFileName) :
            /\ ShuffledCall(vecUseCounts, labelsFileName, ub)
            /\ \E out \in {generateShuffledPoses(twin.obj, vecUseCounts,
                                                   labelsFileName, ub)} :
                TwinFinish(out)

PairContinues ==
    /\ twin.phase = "ready"
    /\ Continue
    /\ twin' = [twin EXCEPT !.status = "none", !.ret = <<>>]

NextPair ==
    \/ PairConstruct
    \/ TwinConstruct
    \/ PairPoses4vecFrames
    \/ PairShuffledPoses
    \/ PairContinues

SpecPair == Init /\ [][NextPair]_vars

\* ------------------------------------------- the reshuffle loop, step by step
\* generateShuffledPoses with its while loop taken one std::shuffle at a
\* time.  While the call is in the loop phase is "shuffling" and ret holds
\* flattenedPoses.  The engine is a fair source here: a std::shuffle may find
\* m_generator in any state, so that every arrangement std::shuffle can
\* produce is produced if the loop goes on.

\* Lines 77-93: generatePoses4vecFrames, the flattening, the return of {} and
\* the first std::shuffle.
ShuffledEnter ==
    /\ phase = "ready"
    /\ \E vecUseCounts \in UseCountVecs, labelsFileName \in TraceFiles :
        \E ub \in UBChoices(labelsFileName) :
            \E unshuffledPoses \in {generatePoses4vecFrames(obj, vecUseCounts,
                                                              labelsFileName, ub)} :
                \E flattenedPoses \in {FlattenFrom(unshuffledPoses.ret, 1)} :
                    \E c \in {Call("generateShuffledPoses", vecUseCounts, labelsFileName,
                                   0, 0, perturbParams1, obj.m_generator)} :
                        IF unshuffledPoses.st # "ok"
                        THEN Finish(c, unshuffledPoses)
                        ELSE IF Len(flattenedPoses) = 0
                        THEN Finish(c, Outcome("ok", <<>>, unshuffledPoses.g,
                                               Locals(unshuffledPoses.locals.planned,
                                                      unshuffledPoses.ret, 0, <<>>)))
                        ELSE \E g \in Seeds :
                                \E at \in {shuffle(flattenedPoses, g)} :
                                    /\ phase' = "shuffling"
                                    /\ call' = c
                                    /\ status' = "none"
                                    /\ ret' = at.seq
                                    /\ locals' = Locals(unshuffledPoses.locals.planned,
                                                        unshuffledPoses.ret, 1, <<>>)
                                    /\ obj' = [obj EXCEPT !.m_generator = at.g]
                                    /\ UNCHANGED <<configRules, clock>>
    /\ UNCHANGED twin

\* Lines 95-98: the loop condition holds; one more std::shuffle.  The count
\* of shuffles is kept up to MaxCounted.
Reshuffle ==
    /\ phase = "shuffling"
    /\ ret[1].flip
    /\ \E g \in Seeds :
        \E at \in {shuffle(ret, g)} :
            /\ ret' = at.seq
            /\ obj' = [obj EXCEPT !.m_generator = at.g]
    /\ locals' = [locals EXCEPT !.shuffles = IF @ < MaxCounted THEN @ + 1 ELSE @]
    /\ UNCHANGED <<phase, configRules, call, status, clock, twin>>

\* Lines 95, 99: the loop condition fails; return flattenedPoses.
ShuffledReturn ==
    /\ phase = "shuffling"
    /\ ~ret[1].flip
    /\ phase' = "returned"
    /\ status' = "ok"
    /\ UNCHANGED <<configRules, obj, call, ret, locals, clock, twin>>

NextFair ==
    \/ Construct
    \/ CallerContinues
    \/ ShuffledEnter
    \/ Reshuffle
    \/ ShuffledReturn

\* A fair shuffle: a loop that could exit with its next std::shuffle again
\* and again does exit; the program does not stop inside the call.
FairShuffle ==
    /\ WF_vars(Reshuffle)
    /\ SF_vars(Reshuffle /\ ~ret'[1].flip)
    /\ WF_vars(ShuffledReturn)

SpecFair == Init /\ [][NextFair]_vars /\ FairShuffle

\* ------------------------------------------------------------------ claims
VecReturned      == call.op = "generatePoses4vecFrames" /\ status = "ok"
ShuffledReturned == call.op = "generateShuffledPoses" /\ status = "ok"
FrameReturned    == call.op = "generatePoses4oneFrame" /\ status = "ok"
OnePoseReturned  == call.op = "generateOnePose" /\ status = "ok"

\* The parameters of the rule find_if matched for the i-th frame (1-based)
\* of the last call.
MatchedParams(i) == obj.m_perturbRules[locals.planned[i].rulePos].second

\* valueInBound of the test.
valueInBound(val, limit) == Abs(val) <= limit

PoseInBounds(p, params) ==
    /\ valueInBound(p.shift, params.shift.max)
    /\ valueInBound(p.rotation, params.rotation.max)
    /\ valueInBound(p.forward, params.forward.max)
    /\ \A n \in DOMAIN p.sensor_yaw : valueInBound(p.sensor_yaw[n], params.sensor_yaw.max)
    /\ \A n \in DOMAIN p.sensor_pitch :
           valueInBound(p.sensor_pitch[n], params.sensor_pitch.max)
    /\ \A n \in DOMAIN p.sensor_roll : valueInBound(p.sensor_roll[n], params.sensor_roll.max)

RECURSIVE SumFrom(_, _)
SumFrom(v, k) == IF k > Len(v) THEN 0 ELSE v[k] + SumFrom(v, k + 1)

\* A label string holds of a frame's labels.
StringMatches(str, labels) ==
    \A t \in Range(str) : t[1] \in DOMAIN labels /\ labels[t[1]] = t[2]

\* The positions in configRules of the rules whose label string holds of
\* the i-th frame (1-based) of the last call's trace.
MatchingRules(i) ==
    {k \in 1..Len(configRules) :
        StringMatches(configRules[k].first, call.labelsFileName.frames[i])}

SetMin(S) == CHOOSE x \in S : \A y \in S : x <= y

\* C1: a generatePoses4vecFrames call that returns gives one entry per
\* datapoint of the trace, and entry i holds vecUseCounts[i] poses.
C1_ResultShape ==
    VecReturned =>
        /\ Len(ret) = getNumDatapoints(call.labelsFileName)
        /\ Len(ret) = Len(call.vecUseCounts)
        /\ \A i \in 1..Len(ret) : Len(ret[i]) = call.vecUseCounts[i]

C1_Witness ==
    /\ VecReturned
    /\ Len(ret) >= 2
    /\ \E i, j \in 1..Len(ret) : Len(ret[i]) = 0 /\ Len(ret[j]) >= 2

\* C2: every field of every pose a generatePoses4vecFrames call returns is
\* within the max of that field in the rule matched for the pose's frame,
\* flipped poses included.
C2_FieldsWithinMax ==
    VecReturned =>
        \A i \in 1..Len(ret) : \A j \in 1..Len(ret[i]) :
            PoseInBounds(ret[i][j], MatchedParams(i))

\* C3: in a frame whose matched rule has flip enabled the poses of odd
\* index are flipped and those of even index are not; with flip disabled no
\* pose of the frame is flipped.
C3_FlipAlternates ==
    VecReturned =>
        \A i \in 1..Len(ret) : \A j \in 1..Len(ret[i]) :
            ret[i][j].flip = (MatchedParams(i).flip /\ ((j - 1) % 2 = 1))

C3_Witness ==
    /\ VecReturned
    /\ \E i \in 1..Len(ret) :
        /\ Len(ret[i]) >= 2
        /\ MatchedParams(i).flip
        /\ ~ret[i][1].flip
        /\ ret[i][2].flip
    /\ \E i \in 1..Len(ret) :
        /\ Len(ret[i]) >= 2
        /\ ~MatchedParams(i).flip
        /\ ~ret[i][2].flip

\* C4: a generateShuffledPoses call never returns a non-empty sequence
\* whose first pose is flipped, and when the flattened sequence is empty it
\* returns the empty sequence without a shuffle.
C4_FirstNeverFlipped ==
    ShuffledReturned =>
        /\ Len(ret) > 0 => ~ret[1].flip
        /\ Len(FlattenFrom(locals.unshuffledPoses, 1)) = 0 =>
               Len(ret) = 0 /\ locals.shuffles = 0

C4_Witness ==
    /\ ShuffledReturned
    /\ locals.shuffles >= 2
    /\ \E k \in 1..Len(ret) : ret[k].flip

\* C5: on a trace that loads, generatePoses4vecFrames fails with the frame
\* count mismatch exactly when vecUseCounts and the trace differ in length,
\* and then no frame has been planned and the generator is as at entry.
C5_MismatchIffLengthsDiffer ==
    (call.op = "generatePoses4vecFrames" /\ call.labelsFileName.loads) =>
        /\ (status = "FrameCountMismatch") <=>
               (Len(call.vecUseCounts) # getNumDatapoints(call.labelsFileName))
        /\ status = "FrameCountMismatch" =>
               obj.m_generator = call.entry /\ locals.planned = <<>>

C5_Witness ==
    /\ call.op = "generatePoses4vecFrames"
    /\ status = "FrameCountMismatch"
    /\ Len(call.vecUseCounts) >= 1
    /\ getNumDatapoints(call.labelsFileName) > Len(call.vecUseCounts)

\* C6: every pose of a frame with a use count above 0 is synthesized from
\* the parameters of the first rule, in the order of configRules, whose
\* label string holds of the frame.
C6_FirstMatchingRule ==
    VecReturned =>
        \A i \in 1..Len(ret) :
            call.vecUseCounts[i] > 0 =>
                /\ MatchingRules(i) # {}
                /\ locals.planned[i].used =
                       [j \in 1..call.vecUseCounts[i] |-> SetMin(MatchingRules(i))]
                /\ MatchedParams(i) = configRules[SetMin(MatchingRules(i))].second

C6_Witness ==
    /\ VecReturned
    /\ \E i \in 1..Len(ret) :
        /\ call.vecUseCounts[i] >= 2
        /\ Cardinality(MatchingRules(i)) >= 2
        /\ locals.planned[i].rulePos = 1
    /\ \E i \in 1..Len(ret) :
        /\ call.vecUseCounts[i] >= 1
        /\ MatchingRules(i) = {2}
        /\ locals.planned[i].rulePos = 2

\* C7: generatePoses4oneFrame fails with the no-matching-rule error exactly
\* when useCount > 0 and no rule matches the frame; with useCount = 0 it
\* returns the empty sequence without a rule lookup.
C7_NoRuleErrorExactly ==
    call.op = "generatePoses4oneFrame" =>
        /\ (status = "NoMatchingRule") <=>
               (call.useCount > 0 /\
                \A r \in 1..Len(obj.m_perturbRules) :
                    ~doLabelsMatch(call.labelsFileName, call.index,
                                   obj.m_perturbRules[r].first))
        /\ call.useCount = 0 =>
               status = "ok" /\ Len(ret) = 0 /\ locals.planned[1].lookups = 0

LastOf(k) ==
    CHOOSE j \in 1..Len(obj.m_sensorNames) :
        /\ obj.m_sensorNames[j] = obj.m_sensorNames[k]
        /\ \A l \in (j + 1)..Len(obj.m_sensorNames) :
               obj.m_sensorNames[l] # obj.m_sensorNames[k]

FirstOf(k) ==
    CHOOSE j \in 1..Len(obj.m_sensorNames) :
        /\ obj.m_sensorNames[j] = obj.m_sensorNames[k]
        /\ \A l \in 1..(j - 1) : obj.m_sensorNames[l] # obj.m_sensorNames[k]

\* The pose of a direct generateOnePose call stores, for the name at
\* position k, the yaw, pitch and roll sampled at position j of the list.
StoresSamplesOf(k, j) ==
    /\ ret[1].sensor_yaw[obj.m_sensorNames[k]] = locals.samples[3 * j + 1]
    /\ ret[1].sensor_pitch[obj.m_sensorNames[k]] = locals.samples[3 * j + 2]
    /\ ret[1].sensor_roll[obj.m_sensorNames[k]] = locals.samples[3 * j + 3]

\* C9 as stated: for a sensor name that occurs more than once the pose
\* stores the values sampled for the last occurrence.
C9_LastOccurrenceStored ==
    OnePoseReturned =>
        \A k \in 1..Len(obj.m_sensorNames) : StoresSamplesOf(k, LastOf(k))

\* C9: for a sensor name that occurs more than once the pose stores the
\* values sampled for the first occurrence; the values sampled for later
\* occurrences are drawn and dropped.
C9_FirstOccurrenceStored ==
    OnePoseReturned =>
        /\ Len(locals.samples) = 3 + 3 * Len(obj.m_sensorNames)
        /\ DOMAIN ret[1].sensor_yaw = Range(obj.m_sensorNames)
        /\ \A k \in 1..Len(obj.m_sensorNames) : StoresSamplesOf(k, FirstOf(k))

C9_Witness ==
    /\ OnePoseReturned
    /\ \E k \in 1..Len(obj.m_sensorNames) :
        /\ FirstOf(k) # LastOf(k)
        /\ locals.samples[3 * FirstOf(k) + 1] # locals.samples[3 * LastOf(k) + 1]
        /\ ret[1].sensor_yaw[obj.m_sensorNames[k]] = locals.samples[3 * FirstOf(k) + 1]

\* The number of positions of sequence s that hold x.
Count(s, x) == Cardinality({k \in 1..Len(s) : s[k] = x})

\* C10: the sequence generateShuffledPoses returns is a permutation of the
\* flattened result of its generatePoses4vecFrames call: as long as the sum
\* of vecUseCounts, pose for pose the same, with vecUseCounts[i] poses of
\* srcFrame i.
C10_ShuffleIsPermutation ==
    ShuffledReturned =>
        LET flat == FlattenFrom(locals.unshuffledPoses, 1)
        IN  /\ Len(ret) = SumFrom(call.vecUseCounts, 1)
            /\ Len(ret) = Len(flat)
            /\ \A k \in 1..Len(flat) : Count(ret, flat[k]) = Count(flat, flat[k])
            /\ \A i \in 1..Len(call.vecUseCounts) :
                   Cardinality({k \in 1..Len(ret) : ret[k].srcFrame = i - 1})
                       = call.vecUseCounts[i]

C10_Witness ==
    /\ ShuffledReturned
    /\ Len(ret) >= 3
    /\ ret # FlattenFrom(locals.unshuffledPoses, 1)
    /\ \E k \in 1..Len(ret) : ret[k].srcFrame = 1

\* The flattened sequence of the call under way, and the first pose of each
\* of its frames with a use count above 0.
Flattened == FlattenFrom(locals.unshuffledPoses, 1)

\* C11: the reshuffle loop can always exit.  Whenever generateShuffledPoses
\* is in its loop, the pose at index 0 of every frame with a use count above 0
\* is not flipped, so the flattened sequence and every arrangement of it hold
\* a pose that is not flipped; and under a fair shuffle every call that has
\* entered the loop returns.
C11_ReshuffleLoopExits ==
    /\ [](phase = "shuffling" =>
            /\ \A i \in 1..Len(locals.unshuffledPoses) :
                   call.vecUseCounts[i] > 0 => ~locals.unshuffledPoses[i][1].flip
            /\ \E k \in 1..Len(Flattened) : ~Flattened[k].flip
            /\ \E k \in 1..Len(ret) : ~ret[k].flip)
    /\ ((phase = "shuffling") ~> (phase = "returned" /\ status = "ok"))

C11_Witness ==
    /\ phase = "returned"
    /\ ShuffledReturned
    /\ locals.shuffles >= 2
    /\ ~ret[1].flip
    /\ \E k \in 1..Len(ret) : ret[k].flip

====
